---- MODULE Spec2Model ----
(***************************************************************************)
(* Usage metering of the puhui2 server (server.js) and of its React        *)
(* clients (App.tsx, AIAssistant.tsx, userService.ts).                     *)
(*                                                                         *)
(* The MySQL store is modelled as committed tables (users, usage_logs,     *)
(* images) plus, per request handler, the uncommitted writes of the        *)
(* transaction open on it.  An UPDATE of a users row takes the row's       *)
(* exclusive lock until COMMIT/ROLLBACK; a plain SELECT takes no lock and  *)
(* reads the committed row (or the transaction's own write).               *)
(***************************************************************************)
EXTENDS Integers, Sequences, FiniteSets, TLC

\* ---------------------------------------------------------------- bounds
MaxUsers    == 2   \* accounts 1..MaxUsers
MaxRequests == 2   \* requests sent straight to the API in one behaviour
MaxInvocations == 2 \* UI handlers (generate, edit, send, mount) run in one behaviour
MaxMessages == 2    \* rows of chat_messages

\* ------------------------------------------------------ program constants
InitialGrant == 100000        \* users.tokens BIGINT DEFAULT 100000

UserIds    == 1..MaxUsers
NoHandler  == 0               \* lockOwner value of an unlocked row
NoUser     == 0               \* currentUser === null

\* feature_name values written by the code
FeatureEngine == "visualization_engine"   \* '可視化引擎'   (App.tsx)
FeatureChat   == "deep_chat"              \* '深聊浅谈'     (AIAssistant.tsx)
FeatureTopUp  == "admin_manual_topup"     \* '管理員手動充值' (server.js)

\* request bodies drawn by the callers
TokenCounts == {30, 70}               \* tokenCount of POST /api/usage
Usages      == {40}                   \* usage reported by a gateway call
NewBalances == {50, 200000}           \* tokens of PUT /api/admin/users/:id

VARIABLES
  users,       \* table users: [id |-> [tokens |-> n, role |-> r]] for the rows
               \* that exist
  usage_logs,  \* table usage_logs, in insertion (commit) order
  handlers,    \* one entry per request received: the handler serving it, on
               \* its own pooled connection, and its response once it is done
  lockOwner,   \* users row id |-> handler whose transaction holds its lock
  images,      \* table images: rows [id, user_id, r2_key]
  r2objects,   \* the R2 bucket: key |-> body of the object stored under it
  client,      \* the browser tab: one entry per UI handler invoked, with the
               \* await it is at
  currentUser, \* the browser tab: the account logged in (App.tsx currentUser)
  chat_sessions, \* table chat_sessions: id |-> [user_id, updated_at]
  chat_messages, \* table chat_messages: rows [session_id, created_at], in
                 \* AUTO_INCREMENT id order
  chat,        \* per account: the chat request of that account being served
  reply,       \* the response sent last
  jwts,        \* the tokens signToken has issued: [id, role]
  mockDb       \* the in-memory store (mockUsers, mockUsageLogs) as it would
               \* be had the same requests been served with useMockDb set,
               \* and the responses it gave

orchVars == <<images, r2objects, client, currentUser>>
coreVars == <<users, usage_logs, handlers, lockOwner, images, r2objects, client,
              currentUser, jwts, mockDb>>
chatVars == <<chat_sessions, chat_messages, chat, reply>>
vars == <<users, usage_logs, handlers, lockOwner, images, r2objects, client,
          currentUser, chat_sessions, chat_messages, chat, reply, jwts,
          mockDb>>

\* ------------------------------------------------------------- helpers
RECURSIVE SumCounts(_)
SumCounts(s) == IF s = <<>> THEN 0 ELSE Head(s).token_count + SumCounts(Tail(s))

LogsOf(u) == SelectSeq(usage_logs, LAMBDA l : l.user_id = u)
LogsOfReq(r) == SelectSeq(usage_logs, LAMBDA l : l.req = r)

Exists(u) == u \in DOMAIN users

Received == DOMAIN handlers

Done(h) == handlers[h].pc \in {"ok", "err"}
InTxn(h) == ~Done(h)

\* the tokens value a SELECT of handler h sees for row u: the transaction's
\* own uncommitted write if it made one, else the committed row
ReadTokens(h, u) ==
  IF handlers[h].written /\ handlers[h].uid = u THEN handlers[h].pendingTokens
  ELSE users[u].tokens

\* InnoDB row lock: an UPDATE or DELETE of users row u by handler h can
\* proceed when no other transaction holds the row's exclusive lock
LockFreeMutant(h, u) == TRUE
LockFree(h, u) == lockOwner[u] \in {NoHandler, h}

ReleaseLocks(h) ==
  [u \in UserIds |-> IF lockOwner[u] = h THEN NoHandler ELSE lockOwner[u]]

\* another handler is inside a transaction on the same account
Overlaps(h, u) == \E d \in Received \ {h} : InTxn(d) /\ handlers[d].uid = u

\* the handler of a request just received; before/after/debited/overlap
\* record what the handler saw and did, for the properties below
\* the image bytes a request body carries in its data field
ImageData == {"png_a", "png_b"}
NoData == "none"

NewHandler(op, pc, u, arg, f, inv) ==
  [op |-> op, pc |-> pc, uid |-> u, arg |-> arg, feature |-> f, inv |-> inv,
   putFailed |-> FALSE, url |-> "none", data |-> NoData,
   currentTokens |-> 0, written |-> FALSE, pendingTokens |-> 0,
   pendingLogs |-> <<>>, remainingTokens |-> 0, role |-> "none",
   before |-> 0, after |-> 0, debited |-> FALSE, overlap |-> FALSE]

\* a chat request slot with no request in it; the response log before the
\* first response
Idle == [op |-> "idle", pc |-> "idle", sid |-> "none", ts |-> 0]
NoReply == [to |-> NoUser, op |-> "none", status |-> 0, body |-> <<>>]

\* JavaScript values of a tokens property: a number, undefined (the property
\* is absent) or NaN
Number(n) == [kind |-> "number", n |-> n]
Undefined == [kind |-> "undefined", n |-> 0]
NaN == [kind |-> "NaN", n |-> 0]

\* the object register and admin-create push onto mockUsers: it has no
\* tokens property
MockNewUser == [tokens |-> Undefined]

\* ------------------------------------------------------------------ Init
\* initDb creates the account 'admin' with role 'admin' first;
\* POST /api/auth/register gives every other account the role 'user'
DefaultAdmin == CHOOSE u \in UserIds : \A v \in UserIds : u <= v
SeedRole(u) == IF u = DefaultAdmin THEN "admin" ELSE "user"

Init ==
  /\ users = [u \in UserIds |-> [tokens |-> InitialGrant, role |-> SeedRole(u)]]
  /\ usage_logs = <<>>
  /\ handlers = <<>>
  /\ lockOwner = [u \in UserIds |-> NoHandler]
  /\ images = <<>>
  /\ r2objects = [key \in {} |-> NoData]
  /\ client = <<>>
  /\ currentUser = NoUser
  /\ chat_sessions = [sid \in {} |-> [user_id |-> NoUser, updated_at |-> 0]]
  /\ chat_messages = <<>>
  /\ chat = [u \in UserIds |-> Idle]
  /\ reply = NoReply
  /\ jwts = {}
  /\ mockDb = [users |-> [u \in UserIds |-> MockNewUser], usage_logs |-> <<>>,
               res |-> <<>>]

\* --------------------------------------------- transaction end: rollback
\* connection.rollback(): the uncommitted INSERTs of the transaction are
\* discarded; the table keeps what was committed
LogsAfterRollbackMutant(h) == usage_logs \o handlers[h].pendingLogs
LogsAfterRollback(h) == usage_logs

\* catch (...) { await connection.rollback(); ... res.status(500) }
Rollback500(h) ==
  /\ usage_logs' = LogsAfterRollback(h)
  /\ lockOwner' = ReleaseLocks(h)
  /\ handlers' = [handlers EXCEPT ![h].pc = "err", ![h].pendingLogs = <<>>,
                                  ![h].written = FALSE]
  /\ UNCHANGED <<users, orchVars>>

\* COMMIT: the transaction's writes become the committed tables
Commit200(h) ==
  LET u == handlers[h].uid
      newUsers == IF handlers[h].written /\ Exists(u)
                  THEN [users EXCEPT ![u].tokens = handlers[h].pendingTokens,
                                     ![u].role = IF handlers[h].op = "adjust"
                                                 THEN handlers[h].role ELSE @]
                  ELSE users
  IN
  /\ users' = newUsers
  /\ usage_logs' = usage_logs \o handlers[h].pendingLogs
  /\ lockOwner' = ReleaseLocks(h)
  /\ handlers' = [handlers EXCEPT ![h] =
        [@ EXCEPT !.pc = "ok", !.pendingLogs = <<>>, !.written = FALSE,
                  !.debited = handlers[h].written,
                  !.after = IF Exists(u) THEN newUsers[u].tokens ELSE 0]]
  /\ UNCHANGED orchVars

\* ------------------------------------------------- POST /api/usage (DB)
\* authenticateToken passed for the bearer of a token signed for account u
\* (the token outlives the users row); getConnection, beginTransaction
StartUsage(u, f, tokenCount, inv) ==
  /\ handlers' = Append(handlers, NewHandler("usage", "u_insert", u, tokenCount, f, inv))
  /\ UNCHANGED <<users, usage_logs, lockOwner>>

\* the row INSERT INTO usage_logs writes for a charge
UsageLogRowMutant(h) ==
  [user_id |-> handlers[h].uid, feature_name |-> handlers[h].feature,
   token_count |-> 0, req |-> h]
UsageLogRow(h) ==
  [user_id |-> handlers[h].uid, feature_name |-> handlers[h].feature,
   token_count |-> handlers[h].arg, req |-> h]

\* 1. INSERT INTO usage_logs ...; the FOREIGN KEY rejects a missing user
UsageInsert(h) ==
  /\ handlers[h].pc = "u_insert"
  /\ IF Exists(handlers[h].uid)
     THEN /\ handlers' = [handlers EXCEPT
                 ![h].pendingLogs = Append(@, UsageLogRow(h)),
                 ![h].overlap = Overlaps(h, handlers[h].uid),
                 ![h].pc = "u_update"]
          /\ UNCHANGED <<users, usage_logs, lockOwner, orchVars>>
     ELSE Rollback500(h)

\* UPDATE users SET tokens = tokens - ?: tokens is a signed BIGINT and the
\* statement has no condition on the balance
DeductMutant(tokens, tokenCount) ==
  IF tokenCount > tokens THEN tokens ELSE tokens - tokenCount
Deduct(tokens, tokenCount) == tokens - tokenCount

\* 2. UPDATE users SET tokens = tokens - ? WHERE id = ?
UsageUpdate(h) ==
  /\ handlers[h].pc = "u_update"
  /\ LET u == handlers[h].uid IN
     IF Exists(u)
     THEN /\ LockFree(h, u)
          /\ lockOwner' = [lockOwner EXCEPT ![u] = h]
          /\ handlers' = [handlers EXCEPT
                 ![h].written = TRUE,
                 ![h].pendingTokens = Deduct(users[u].tokens, handlers[h].arg),
                 ![h].before = users[u].tokens,
                 ![h].pc = "u_select"]
     ELSE \* no row matches: zero rows updated, no error
          /\ handlers' = [handlers EXCEPT ![h].pc = "u_select"]
          /\ UNCHANGED lockOwner
  /\ UNCHANGED <<users, usage_logs, orchVars>>

\* 3. SELECT tokens FROM users WHERE id = ?; rows[0].tokens throws on no row
UsageSelect(h) ==
  /\ handlers[h].pc = "u_select"
  /\ IF Exists(handlers[h].uid)
     THEN /\ handlers' = [handlers EXCEPT
                 ![h].remainingTokens = ReadTokens(h, handlers[h].uid),
                 ![h].pc = "u_commit"]
          /\ UNCHANGED <<users, usage_logs, lockOwner, orchVars>>
     ELSE Rollback500(h)

\* await connection.commit(); res.json({ success: true, remainingTokens })
UsageCommit(h) ==
  /\ handlers[h].pc = "u_commit"
  /\ Commit200(h)

\* any query of an open transaction may be rejected by the server (lost
\* connection, lock wait timeout, deadlock victim): catch -> rollback -> 500
QueryFails(h) ==
  /\ InTxn(h)
  /\ handlers[h].pc # "i_put"
  /\ Rollback500(h)

\* --------------------------------------- PUT /api/admin/users/:id (DB)
\* req.user.role === 'admin'; getConnection, beginTransaction
StartAdjust(id, tokens, role) ==
  /\ handlers' = Append(handlers,
        [NewHandler("adjust", "a_select", id, tokens, FeatureTopUp, 0)
           EXCEPT !.role = role])
  /\ UNCHANGED <<users, usage_logs, lockOwner>>

\* SELECT tokens FROM users WHERE id = ? (no FOR UPDATE: takes no lock);
\* rows[0].tokens throws when the row is missing
AdjustSelect(h) ==
  /\ handlers[h].pc = "a_select"
  /\ IF Exists(handlers[h].uid)
     THEN /\ handlers' = [handlers EXCEPT
                 ![h].currentTokens = ReadTokens(h, handlers[h].uid),
                 ![h].before = ReadTokens(h, handlers[h].uid),
                 ![h].overlap = Overlaps(h, handlers[h].uid),
                 ![h].pc = "a_update"]
          /\ UNCHANGED <<users, usage_logs, lockOwner, orchVars>>
     ELSE Rollback500(h)

\* const tokenChange = tokens - currentTokens
tokenChange(h) == handlers[h].arg - handlers[h].currentTokens

\* if (tokenChange > 0)
TopUpLoggedMutant(change) == change # 0
TopUpLogged(change) == change > 0

\* UPDATE users SET ..., tokens = ? WHERE id = ?
AdjustUpdate(h) ==
  /\ handlers[h].pc = "a_update"
  /\ LET u == handlers[h].uid
         next == IF TopUpLogged(tokenChange(h)) THEN "a_insert" ELSE "a_commit" IN
     IF Exists(u)
     THEN /\ LockFree(h, u)
          /\ lockOwner' = [lockOwner EXCEPT ![u] = h]
          /\ handlers' = [handlers EXCEPT ![h].written = TRUE,
                                          ![h].pendingTokens = handlers[h].arg,
                                          ![h].pc = next]
     ELSE /\ handlers' = [handlers EXCEPT ![h].pc = next]
          /\ UNCHANGED lockOwner
  /\ UNCHANGED <<users, usage_logs, orchVars>>

\* the row INSERT INTO usage_logs writes for a top-up
TopUpLogRow(h) ==
  [user_id |-> handlers[h].uid, feature_name |-> FeatureTopUp,
   token_count |-> tokenChange(h), req |-> h]

\* INSERT INTO usage_logs (id, '管理員手動充值', tokenChange, now)
AdjustInsert(h) ==
  /\ handlers[h].pc = "a_insert"
  /\ IF Exists(handlers[h].uid)
     THEN /\ handlers' = [handlers EXCEPT
                 ![h].pendingLogs = Append(@, TopUpLogRow(h)),
                 ![h].pc = "a_commit"]
          /\ UNCHANGED <<users, usage_logs, lockOwner, orchVars>>
     ELSE Rollback500(h)

\* await connection.commit(); res.json({ success: true })
AdjustCommit(h) ==
  /\ handlers[h].pc = "a_commit"
  /\ Commit200(h)

\* ------------------------------------ DELETE /api/admin/users/:id (DB)
\* DELETE FROM users WHERE id = ?, autocommitted, waits for the row's lock;
\* ON DELETE CASCADE removes the account's usage_logs and images rows
\* usage_logs.user_id REFERENCES users(id) ON DELETE CASCADE
CascadeLogsMutant(id) == <<>>
CascadeLogs(id) == SelectSeq(usage_logs, LAMBDA l : l.user_id # id)

\* images.user_id REFERENCES users(id) ON DELETE CASCADE
CascadeImagesMutant(id) == images
CascadeImages(id) == SelectSeq(images, LAMBDA i : i.user_id # id)

\* chat_sessions.user_id REFERENCES users(id) ON DELETE CASCADE
CascadeSessions(id) ==
  [x \in {y \in DOMAIN chat_sessions : chat_sessions[y].user_id # id}
     |-> chat_sessions[x]]

\* chat_messages.session_id REFERENCES chat_sessions(id) ON DELETE CASCADE
CascadeMessages(id) ==
  SelectSeq(chat_messages, LAMBDA m : m.session_id \in DOMAIN CascadeSessions(id))

DeleteUser(id) ==
  /\ lockOwner[id] = NoHandler
  /\ users' = [u \in DOMAIN users \ {id} |-> users[u]]
  /\ usage_logs' = CascadeLogs(id)
  /\ images' = CascadeImages(id)
  /\ chat_sessions' = CascadeSessions(id)
  /\ chat_messages' = CascadeMessages(id)
  /\ handlers' = Append(handlers, NewHandler("delete", "ok", id, 0, "none", 0))
  /\ UNCHANGED <<lockOwner, r2objects, client, currentUser, chat, reply>>

\* ------------------------------------------------ the ledger on its own
\* requests arrive straight at the API, from any holder of a valid token
ApiUsage(u, tokenCount) ==
  /\ Len(handlers) < MaxRequests
  /\ StartUsage(u, FeatureEngine, tokenCount, 0)
  /\ UNCHANGED orchVars

\* the admin form sends back the role it loaded with the account
StoredRole(id) == IF Exists(id) THEN users[id].role ELSE "user"

ApiAdjust(id, tokens) ==
  /\ Len(handlers) < MaxRequests
  /\ StartAdjust(id, tokens, StoredRole(id))
  /\ UNCHANGED orchVars

ApiDelete(id) ==
  /\ Len(handlers) < MaxRequests
  /\ DeleteUser(id)

\* Two accounts stand for the account a request addresses and any other
\* one: a handler reads and writes only the rows of the id it was given.
LedgerUsers ==
  LET first == CHOOSE u \in UserIds : TRUE
  IN {first, CHOOSE v \in UserIds : v # first}

NextLedger ==
  \/ \E u \in LedgerUsers, t \in TokenCounts : ApiUsage(u, t) /\ UNCHANGED <<chatVars, jwts, mockDb>>
  \/ \E u \in LedgerUsers, t \in NewBalances : ApiAdjust(u, t) /\ UNCHANGED <<chatVars, jwts, mockDb>>
  \/ \E u \in LedgerUsers : ApiDelete(u) /\ UNCHANGED <<jwts, mockDb>>
  \/ \E h \in Received : UsageInsert(h) /\ UNCHANGED <<chatVars, jwts, mockDb>>
  \/ \E h \in Received : UsageUpdate(h) /\ UNCHANGED <<chatVars, jwts, mockDb>>
  \/ \E h \in Received : UsageSelect(h) /\ UNCHANGED <<chatVars, jwts, mockDb>>
  \/ \E h \in Received : UsageCommit(h) /\ UNCHANGED <<chatVars, jwts, mockDb>>
  \/ \E h \in Received : AdjustSelect(h) /\ UNCHANGED <<chatVars, jwts, mockDb>>
  \/ \E h \in Received : AdjustUpdate(h) /\ UNCHANGED <<chatVars, jwts, mockDb>>
  \/ \E h \in Received : AdjustInsert(h) /\ UNCHANGED <<chatVars, jwts, mockDb>>
  \/ \E h \in Received : AdjustCommit(h) /\ UNCHANGED <<chatVars, jwts, mockDb>>
  \/ \E h \in Received : QueryFails(h) /\ UNCHANGED <<chatVars, jwts, mockDb>>

SpecLedger == Init /\ [][NextLedger]_vars

\* =================================================== POST /api/images (DB)
\* const key = `users/${req.user.id}/${id}.png`
R2Key(u, id) == <<"users", u, id>>

\* const { id, data, ... } = req.body
SaveImage(u, id, inv, data) ==
  /\ handlers' = Append(handlers,
        [NewHandler("image", "i_put", u, id, "none", inv) EXCEPT !.data = data])
  /\ UNCHANGED <<users, usage_logs, lockOwner, images, r2objects>>

\* one image stands for the bytes where they play no part
StartImageSave(u, id, inv) == SaveImage(u, id, inv, CHOOSE d \in ImageData : TRUE)

\* PutObjectCommand({ Key: key, Body: buffer }): the object under the key is
\* created, or replaced when there is one
PutObject(bucket, key, body) ==
  [k \in DOMAIN bucket \cup {key} |-> IF k = key THEN body ELSE bucket[k]]

\* await r2.send(new PutObjectCommand(...)); url = await getSignedUrl(...)
ImagePut(h) ==
  /\ handlers[h].pc = "i_put"
  /\ r2objects' = PutObject(r2objects, R2Key(handlers[h].uid, handlers[h].arg),
                            handlers[h].data)
  /\ handlers' = [handlers EXCEPT ![h].url = "signed", ![h].pc = "i_insert"]
  /\ UNCHANGED <<users, usage_logs, lockOwner, images, client, currentUser>>

\* what the handler does when the upload throws:
\* catch (r2Err) { console.warn(...) } and on to the INSERT, url = data
AfterPutError == "i_insert"

\* the upload to the object store fails
ImagePutFails(h) ==
  /\ handlers[h].pc = "i_put"
  /\ handlers' = [handlers EXCEPT ![h].putFailed = TRUE, ![h].url = "data",
                                  ![h].pc = AfterPutError]
  /\ UNCHANGED <<users, usage_logs, lockOwner, images, r2objects, client, currentUser>>

\* INSERT INTO images (id, user_id, prompt, r2_key, ...); id is the PRIMARY
\* KEY, so a second row with the same id is rejected, and user_id a FOREIGN
\* KEY, so is a row of a deleted account; res.json({success, url})
ImageInsert(h) ==
  /\ handlers[h].pc = "i_insert"
  /\ IF \/ \E k \in DOMAIN images : images[k].id = handlers[h].arg
        \/ ~Exists(handlers[h].uid)
     THEN Rollback500(h)
     ELSE /\ images' = Append(images,
                 [id |-> handlers[h].arg, user_id |-> handlers[h].uid,
                  r2_key |-> R2Key(handlers[h].uid, handlers[h].arg)])
          /\ handlers' = [handlers EXCEPT ![h].pc = "ok"]
          /\ UNCHANGED <<users, usage_logs, lockOwner, r2objects, client, currentUser>>

\* ============================================== the browser client's handlers
\* One browser tab.  JavaScript runs a handler without interruption from one
\* await to the next, so each action below is the code between two awaits.
Invocations == DOMAIN client

\* the gateway calls a handler makes, in order
Stages(kind) ==
  CASE kind = "generate" -> <<"research", "generate">>
    [] kind = "edit"     -> <<"edit">>
    [] kind = "send"     -> <<"chat">>
    [] OTHER             -> <<>>

Feature(kind) == IF kind \in {"generate", "edit"} THEN FeatureEngine ELSE FeatureChat

\* the imagePrompt of a research response (the text after IMAGE_PROMPT:, or
\* the server's default prompt), and the topic the user typed
ImagePrompts == {"prompt_a", "prompt_b"}
Topic == "topic"
NoPrompt == "none"

\* no response yet
NoResult == [imagePrompt |-> NoPrompt, usage |-> 0]

NewInvocation(kind, pc) ==
  [kind |-> kind, uid |-> currentUser, pc |-> pc, calls |-> <<>>,
   totalTokens |-> 0, save |-> 0, charge |-> 0, failedAt |-> "none",
   error |-> [message |-> "none"],
   researchResult |-> NoResult, genResult |-> NoResult, prompt |-> NoPrompt]

\* handleLoginSuccess: setCurrentUser(user).  The accounts start alike, so
\* one of them stands for whichever logs in at this tab.
LoginIds == {CHOOSE u \in UserIds : TRUE}

Login(u) ==
  /\ currentUser = NoUser
  /\ currentUser' = u
  /\ UNCHANGED <<users, usage_logs, handlers, lockOwner, images, r2objects, client>>

Finished(j) == client[j].pc \in {"done", "failed", "error"}

\* App's isLoading: set by handleGenerate and handleEdit, cleared in finally
isLoading == \E j \in Invocations : client[j].kind \in {"generate", "edit"} /\ ~Finished(j)

\* AIAssistant's loading: set by handleSend, cleared in finally
loading == \E j \in Invocations : client[j].kind = "send" /\ ~Finished(j)

\* handleGenerate (App.tsx) up to the research call:
\* if (isLoading) return; if (!currentUser) ... return; setIsLoading(true)
StartGenerate ==
  /\ Len(client) < MaxInvocations
  /\ currentUser # NoUser
  /\ ~isLoading
  /\ client' = Append(client, NewInvocation("generate", "research"))
  /\ UNCHANGED <<users, usage_logs, handlers, lockOwner, images, r2objects, currentUser>>

\* the pipeline of invocation j produced an image: setImageHistory ran
Produced(j) ==
  /\ client[j].kind \in {"generate", "edit"}
  /\ Len(client[j].calls) = Len(Stages(client[j].kind))
  /\ client[j].pc \notin {"generate", "edit", "failed"}

\* handleEdit (App.tsx) up to the edit call; the editor that calls it is
\* rendered when imageHistory.length > 0 && !isLoading:
\* if (imageHistory.length === 0) return; setIsLoading(true)
StartEdit ==
  /\ Len(client) < MaxInvocations
  /\ currentUser # NoUser
  /\ ~isLoading
  /\ \E j \in Invocations : Produced(j)
  /\ client' = Append(client, NewInvocation("edit", "edit"))
  /\ UNCHANGED <<users, usage_logs, handlers, lockOwner, images, r2objects, currentUser>>

\* handleSend (AIAssistant.tsx) of a mounted assistant view with a session
\* open, up to the save of the user's message:
\* if (... || loading) return; setLoading(true)
StartSend ==
  /\ Len(client) < MaxInvocations
  /\ currentUser # NoUser
  /\ \E j \in Invocations : client[j].kind = "mount"
  /\ ~loading
  /\ client' = Append(client, NewInvocation("send", "user_msg"))
  /\ UNCHANGED <<users, usage_logs, handlers, lockOwner, images, r2objects, currentUser>>

\* AIAssistant useEffect on mount: userService.logUsage('深聊浅谈', 0),
\* not awaited
Mount ==
  /\ Len(client) < MaxInvocations
  /\ currentUser # NoUser
  /\ StartUsage(currentUser, FeatureChat, 0, Len(client) + 1)
  /\ client' = Append(client, [NewInvocation("mount", "await_charge")
                                 EXCEPT !.charge = Len(handlers) + 1])
  /\ UNCHANGED <<images, r2objects, currentUser>>

\* where a handler goes when a gateway call throws: the catch block
OnStageErrorMutant(next) == next
OnStageError(next) == "failed"

AfterStage(pc) ==
  CASE pc = "research" -> "generate"
    [] pc = "generate" -> "await_save"
    [] pc = "edit"     -> "await_save"
    [] pc = "chat"     -> "model_msg"

\* totalTokens = researchResult.usage || 0; totalTokens += genResult.usage
AccumulateMutant(total, usage) == usage
Accumulate(total, usage) == total + usage

\* await userService.saveUserImage(currentUser, newImage): POST /api/images;
\* the image id is Date.now().toString(), here the invocation's number
RequestSave(i) == StartImageSave(client[i].uid, i, i)

\* await userService.logUsage(feature, totalTokens): POST /api/usage
RequestCharge(i, tokenCount) ==
  StartUsage(client[i].uid, Feature(client[i].kind), tokenCount, i)

\* what the catch block of a handler leaves for the caller to see: the
\* message of setError (handleGenerate, handleEdit) or the apology appended
\* to the chat (handleSend).  totalTokens is declared inside the try block
\* and is out of scope in the catch.
CatchResultMutant(kind, total) ==
  [message |-> "unavailable", accruedCost |-> total]
CatchResult(kind, total) ==
  [message |-> CASE kind = "generate" -> "generation_unavailable"
                 [] kind = "edit"     -> "edit_failed"
                 [] OTHER             -> "assistant_apology"]

\* generateInfographicImage(researchResult.imagePrompt, aspectRatio, token):
\* the prompt argument of the image-synthesis call
GenerateInputMutant(researchResult) == Topic
GenerateInput(researchResult) == researchResult.imagePrompt

\* the handler moves to pc; on its way it sends the request it awaits there.
\* failedAt records the gateway call that threw, for the properties below;
\* result is the response of the gateway call that returned, if one did.
Resume(i, pc, total, threw, result) ==
  /\ client' = [client EXCEPT
        ![i].pc = pc,
        ![i].researchResult = IF client[i].pc = "research" /\ ~threw THEN result ELSE @,
        ![i].genResult = IF client[i].pc = "generate" /\ ~threw THEN result ELSE @,
        ![i].prompt = IF pc = "generate" THEN GenerateInput(result) ELSE @,
        ![i].error = IF threw \/ pc = "error"
                     THEN CatchResult(client[i].kind, total) ELSE @,
        ![i].failedAt = IF threw THEN client[i].pc ELSE @,
        ![i].totalTokens = total,
        ![i].calls = IF client[i].pc \in {"research", "generate", "edit", "chat"}
                     THEN Append(@, client[i].pc) ELSE @,
        ![i].save = IF pc = "await_save" THEN Len(handlers) + 1 ELSE @,
        ![i].charge = IF pc = "await_charge" THEN Len(handlers) + 1 ELSE @]
  /\ CASE pc = "await_save"   -> RequestSave(i)
       [] pc = "await_charge" -> RequestCharge(i, total) /\ UNCHANGED <<images, r2objects>>
       [] OTHER -> UNCHANGED <<users, usage_logs, handlers, lockOwner, images, r2objects>>
  /\ UNCHANGED currentUser

Proceed(i, pc, total, threw) == Resume(i, pc, total, threw, NoResult)

\* the research call returns { imagePrompt, facts, searchResults, usage }
ResearchReturns(i, usage, imagePrompt) ==
  /\ client[i].pc = "research"
  /\ Resume(i, AfterStage("research"), Accumulate(client[i].totalTokens, usage),
            FALSE, [imagePrompt |-> imagePrompt, usage |-> usage])

\* a gateway call (research, generate-image, edit-image, chat) returns; one
\* prompt stands for the research responses where the prompt plays no part
StageReturns(i, usage) ==
  \/ ResearchReturns(i, usage, CHOOSE p \in ImagePrompts : TRUE)
  \/ /\ client[i].pc \in {"generate", "edit", "chat"}
     /\ Resume(i, AfterStage(client[i].pc), Accumulate(client[i].totalTokens, usage),
               FALSE, [imagePrompt |-> NoPrompt, usage |-> usage])

\* a gateway call fails: apiRequest throws on !response.ok
StageFails(i) ==
  /\ client[i].pc \in {"research", "generate", "edit", "chat"}
  /\ Proceed(i, OnStageError(AfterStage(client[i].pc)), client[i].totalTokens, TRUE)

\* await userService.saveChatMessage(sessionId, role, content) returns: the
\* user's message before the gateway call, the model's after it
MessageSaved(i) ==
  /\ client[i].pc \in {"user_msg", "model_msg"}
  /\ Proceed(i, IF client[i].pc = "user_msg" THEN "chat" ELSE "await_charge",
             client[i].totalTokens, FALSE)

\* saveChatMessage throws ("Failed to save message"): handleSend's catch
MessageSaveFails(i) ==
  /\ client[i].pc \in {"user_msg", "model_msg"}
  /\ Proceed(i, "error", client[i].totalTokens, FALSE)

\* where the handler goes when saveUserImage returns or throws:
\* handleGenerate's inner catch only logs, handleEdit's outer catch sets error
AfterSaveMutant(kind, ok) == "await_charge"
AfterSave(kind, ok) ==
  IF ok THEN "await_charge" ELSE IF kind = "generate" THEN "done" ELSE "error"

\* the response of POST /api/images arrives
SaveReturns(i) ==
  /\ client[i].pc = "await_save"
  /\ Done(client[i].save)
  /\ Proceed(i, AfterSave(client[i].kind, handlers[client[i].save].pc = "ok"),
             client[i].totalTokens, FALSE)

\* where the handler goes when logUsage returns: logUsage catches a failed
\* fetch and ignores a non-ok response, returning {} either way, so the
\* handler carries on as after a success
AfterChargeMutant(ok) == IF ok THEN "done" ELSE "error"
AfterCharge(ok) == "done"

\* the response of POST /api/usage arrives: logUsage returns
\* { remainingTokens } or, on any failure, {}
ChargeReturns(i) ==
  /\ client[i].pc = "await_charge"
  /\ Done(client[i].charge)
  /\ Proceed(i, AfterCharge(handlers[client[i].charge].pc = "ok"),
             client[i].totalTokens, FALSE)

NextOrch ==
  \/ \E u \in LoginIds : Login(u) /\ UNCHANGED <<chatVars, jwts, mockDb>>
  \/ StartGenerate /\ UNCHANGED <<chatVars, jwts, mockDb>>
  \/ StartEdit /\ UNCHANGED <<chatVars, jwts, mockDb>>
  \/ StartSend /\ UNCHANGED <<chatVars, jwts, mockDb>>
  \/ Mount /\ UNCHANGED <<chatVars, jwts, mockDb>>
  \/ \E i \in Invocations, usage \in Usages : StageReturns(i, usage) /\ UNCHANGED <<chatVars, jwts, mockDb>>
  \/ \E i \in Invocations : StageFails(i) /\ UNCHANGED <<chatVars, jwts, mockDb>>
  \/ \E i \in Invocations : MessageSaved(i) /\ UNCHANGED <<chatVars, jwts, mockDb>>
  \/ \E i \in Invocations : MessageSaveFails(i) /\ UNCHANGED <<chatVars, jwts, mockDb>>
  \/ \E i \in Invocations : SaveReturns(i) /\ UNCHANGED <<chatVars, jwts, mockDb>>
  \/ \E i \in Invocations : ChargeReturns(i) /\ UNCHANGED <<chatVars, jwts, mockDb>>
  \/ \E h \in Received : ImagePut(h) /\ UNCHANGED <<chatVars, jwts, mockDb>>
  \/ \E h \in Received : ImagePutFails(h) /\ UNCHANGED <<chatVars, jwts, mockDb>>
  \/ \E h \in Received : ImageInsert(h) /\ UNCHANGED <<chatVars, jwts, mockDb>>
  \/ \E h \in Received : UsageInsert(h) /\ UNCHANGED <<chatVars, jwts, mockDb>>
  \/ \E h \in Received : UsageUpdate(h) /\ UNCHANGED <<chatVars, jwts, mockDb>>
  \/ \E h \in Received : UsageSelect(h) /\ UNCHANGED <<chatVars, jwts, mockDb>>
  \/ \E h \in Received : UsageCommit(h) /\ UNCHANGED <<chatVars, jwts, mockDb>>
  \/ \E h \in Received : QueryFails(h) /\ UNCHANGED <<chatVars, jwts, mockDb>>

SpecOrch == Init /\ [][NextOrch]_vars

\* ============================================================ chat routes
\* The requests below come from an authenticated account u (req.user.id).
\* Each route runs its queries on the pool, one autocommitted statement at a
\* time; chat[u] is the request of u between two statements.

\* Two accounts stand for a requester and any other account: the routes
\* compare req.user.id with a row's user_id and nothing else.
ChatUsers ==
  LET first == CHOOSE u \in UserIds : TRUE
  IN {first, CHOOSE v \in UserIds : v # first}

\* session ids and creation instants drawn by the clients
SessionIds == {"s1", "s2"}
Instants   == {1, 2}

\* the messages of session sid, in id order
MessagesOf(sid) == SelectSeq(chat_messages, LAMBDA m : m.session_id = sid)

Respond(u, op, status, body) ==
  /\ reply' = [to |-> u, op |-> op, status |-> status, body |-> body]
  /\ chat' = [chat EXCEPT ![u] = Idle]

\* POST /api/chat/sessions: INSERT INTO chat_sessions (id, user_id, title,
\* created_at, updated_at) VALUES (id, req.user.id, title, created_at,
\* created_at); id is the PRIMARY KEY and user_id a FOREIGN KEY: a duplicate
\* id or the id of a deleted account goes to the catch
CreateSession(u, sid, ts) ==
  /\ chat[u] = Idle
  /\ IF sid \in DOMAIN chat_sessions \/ ~Exists(u)
     THEN /\ Respond(u, "create", 500, <<>>)
          /\ UNCHANGED chat_sessions
     ELSE /\ chat_sessions' =
               [x \in DOMAIN chat_sessions \cup {sid} |->
                  IF x = sid THEN [user_id |-> u, updated_at |-> ts]
                  ELSE chat_sessions[x]]
          /\ Respond(u, "create", 200, <<>>)
  /\ UNCHANGED <<chat_messages, coreVars>>

\* POST /api/chat/messages { session_id, role, content, created_at }, up to
\* its first statement: INSERT INTO chat_messages (session_id, role,
\* content, created_at); the FOREIGN KEY rejects a session that does not
\* exist
AppendInsert(u, sid, ts) ==
  /\ chat[u] = Idle
  /\ Len(chat_messages) < MaxMessages
  /\ IF sid \in DOMAIN chat_sessions
     THEN /\ chat_messages' = Append(chat_messages,
                 [id |-> Len(chat_messages) + 1, session_id |-> sid,
                  created_at |-> ts])
          /\ chat' = [chat EXCEPT ![u] = [op |-> "append", pc |-> "m_update",
                                          sid |-> sid, ts |-> ts]]
          /\ UNCHANGED reply
     ELSE /\ Respond(u, "append", 500, <<>>)
          /\ UNCHANGED chat_messages
  /\ UNCHANGED <<chat_sessions, coreVars>>

\* the rows UPDATE chat_sessions SET updated_at = ? WHERE id = ? matches
UpdatedRows(u, sid) == {x \in DOMAIN chat_sessions : x = sid}

\* UPDATE chat_sessions SET updated_at = created_at WHERE id = session_id;
\* res.json({ success: true })
AppendUpdate(u) ==
  /\ chat[u].pc = "m_update"
  /\ chat_sessions' =
        [x \in DOMAIN chat_sessions |->
           IF x \in UpdatedRows(u, chat[u].sid)
           THEN [chat_sessions[x] EXCEPT !.updated_at = chat[u].ts]
           ELSE chat_sessions[x]]
  /\ Respond(u, "append", 200, <<>>)
  /\ UNCHANGED <<chat_messages, coreVars>>

\* session.length === 0 || session[0].user_id !== req.user.id
AccessDeniedMutant(u, sid) == sid \notin DOMAIN chat_sessions
AccessDenied(u, sid) ==
  sid \notin DOMAIN chat_sessions \/ chat_sessions[sid].user_id # u

\* GET /api/chat/messages/:sessionId, up to its first statement:
\* SELECT user_id FROM chat_sessions WHERE id = ?; 403 'Access denied'
ListCheck(u, sid) ==
  /\ chat[u] = Idle
  /\ IF AccessDenied(u, sid)
     THEN Respond(u, "list", 403, <<>>)
     ELSE /\ chat' = [chat EXCEPT ![u] = [op |-> "list", pc |-> "l_select",
                                          sid |-> sid, ts |-> 0]]
          /\ UNCHANGED reply
  /\ UNCHANGED <<chat_sessions, chat_messages, coreVars>>

\* ORDER BY created_at ASC; rows of equal created_at stay in id order
RECURSIVE InsertAsc(_, _)
InsertAsc(row, sorted) ==
  IF sorted = <<>> THEN <<row>>
  ELSE IF Head(sorted).created_at <= row.created_at
       THEN <<Head(sorted)>> \o InsertAsc(row, Tail(sorted))
       ELSE <<row>> \o sorted

RECURSIVE OrderByCreatedAsc(_)
OrderByCreatedAsc(rows) ==
  IF rows = <<>> THEN <<>>
  ELSE InsertAsc(rows[Len(rows)], OrderByCreatedAsc(SubSeq(rows, 1, Len(rows) - 1)))

\* rows.map(r => ({ id, role, content, timestamp: parseInt(r.created_at) }))
MessageJson(rows) ==
  [k \in 1..Len(rows) |-> [id |-> rows[k].id, timestamp |-> rows[k].created_at]]

\* SELECT * FROM chat_messages WHERE session_id = ? ORDER BY created_at ASC
ListSelect(u) ==
  /\ chat[u].pc = "l_select"
  /\ Respond(u, "list", 200, MessageJson(OrderByCreatedAsc(MessagesOf(chat[u].sid))))
  /\ UNCHANGED <<chat_sessions, chat_messages, coreVars>>

\* WHERE user_id = ?
SessionsOf(u) == {x \in DOMAIN chat_sessions : chat_sessions[x].user_id = u}

\* ORDER BY updated_at DESC, mapped to { id, title, timestamp: updated_at }
RECURSIVE OrderByUpdatedDesc(_)
OrderByUpdatedDesc(S) ==
  IF S = {} THEN <<>>
  ELSE LET top == CHOOSE x \in S :
                    \A y \in S : chat_sessions[y].updated_at <= chat_sessions[x].updated_at
       IN <<[id |-> top, timestamp |-> chat_sessions[top].updated_at]>>
            \o OrderByUpdatedDesc(S \ {top})

\* GET /api/chat/sessions: SELECT * FROM chat_sessions WHERE user_id = ?
\* ORDER BY updated_at DESC
ListSessions(u) ==
  /\ chat[u] = Idle
  /\ Respond(u, "sessions", 200, OrderByUpdatedDesc(SessionsOf(u)))
  /\ UNCHANGED <<chat_sessions, chat_messages, coreVars>>

\* a statement of a chat route is rejected by the database:
\* catch (err) { res.status(500).json({ message: err.message }) }
ChatQueryFails(u) ==
  /\ chat[u] # Idle
  /\ Respond(u, chat[u].op, 500, <<>>)
  /\ UNCHANGED <<chat_sessions, chat_messages, coreVars>>

NextChat ==
  \/ \E u \in ChatUsers, sid \in SessionIds, ts \in Instants : CreateSession(u, sid, ts)
  \/ \E u \in ChatUsers, sid \in SessionIds, ts \in Instants : AppendInsert(u, sid, ts)
  \/ \E u \in ChatUsers : AppendUpdate(u)
  \/ \E u \in ChatUsers, sid \in SessionIds : ListCheck(u, sid)
  \/ \E u \in ChatUsers : ListSelect(u)
  \/ \E u \in ChatUsers : ListSessions(u)
  \/ \E u \in ChatUsers : ChatQueryFails(u)

SpecChat == Init /\ [][NextChat]_vars

\* ======================================================= ledger properties
OkUsageOn(u) ==
  {h \in Received : handlers[h].op = "usage" /\ handlers[h].pc = "ok"
                    /\ handlers[h].uid = u}
AdjustsOn(u) == {h \in Received : handlers[h].op = "adjust" /\ handlers[h].uid = u}
HandlersOn(u) == {h \in Received : handlers[h].uid = u}

RECURSIVE SumArgs(_)
SumArgs(S) ==
  IF S = {} THEN 0
  ELSE LET h == CHOOSE x \in S : TRUE IN handlers[h].arg + SumArgs(S \ {h})

\* C1: ledger conservation.  In every reachable state each account's
\* balance equals its initial grant plus the sum of the signed deltas
\* (token_count) of its usage records.
C1_LedgerConservation ==
  \A u \in DOMAIN users :
    users[u].tokens = InitialGrant + SumCounts(LogsOf(u))

\* C2: atomic charge.  On an account that no adjustment targets, whatever
\* the interleaving of the charges' steps, the balance is the initial grant
\* less the amounts of exactly the charges that returned success, and there
\* is exactly one usage record per such charge.
C2_AtomicCharge ==
  \A u \in DOMAIN users :
    AdjustsOn(u) = {} =>
      /\ users[u].tokens = InitialGrant - SumArgs(OkUsageOn(u))
      /\ Len(LogsOf(u)) = Cardinality(OkUsageOn(u))

\* two charges of 30 and 70 whose transactions overlapped both succeeded
C2_Witness ==
  \E u \in DOMAIN users, g, h \in Received :
    /\ {g, h} = OkUsageOn(u) /\ g # h
    /\ handlers[g].arg = 30 /\ handlers[h].arg = 70
    /\ handlers[g].overlap \/ handlers[h].overlap
    /\ users[u].tokens = InitialGrant - 100
    /\ Len(LogsOf(u)) = 2

C4_ChargeAppendsNegativeDelta ==
  \A h \in Received :
    (handlers[h].op = "usage" /\ handlers[h].pc = "ok" /\ Exists(handlers[h].uid)) =>
      /\ Len(LogsOfReq(h)) = 1
      /\ LogsOfReq(h)[1].token_count = 0 - handlers[h].arg
      /\ handlers[h].after = handlers[h].before - handlers[h].arg
      /\ handlers[h].remainingTokens = handlers[h].before - handlers[h].arg

\* the delta an adjustment logged (0: it logged nothing)
LoggedDelta(h) == IF LogsOfReq(h) = <<>> THEN 0 ELSE LogsOfReq(h)[1].token_count
\* the delta adjust logs for a change d (0: it logs nothing)
DeltaToLog(d) == IF d > 0 THEN d ELSE 0

\* C5: an adjustment and a charge on the same account, both successful and
\* alone on that account, end with the balance and the logged adjustment
\* delta of one of their two serial executions.
C5_AdjustSerializesWithCharge ==
  \A u \in DOMAIN users, a, c \in Received :
    ( /\ HandlersOn(u) = {a, c}
      /\ handlers[a].op = "adjust" /\ handlers[a].pc = "ok"
      /\ handlers[c].op = "usage" /\ handlers[c].pc = "ok" ) =>
      LET n == handlers[a].arg
          amt == handlers[c].arg
      IN \/ /\ users[u].tokens = n - amt                 \* adjust; charge
            /\ LoggedDelta(a) = DeltaToLog(n - InitialGrant)
         \/ /\ users[u].tokens = n                       \* charge; adjust
            /\ LoggedDelta(a) = DeltaToLog(n - (InitialGrant - amt))

\* C6: adjust sets the balance to newBalance and appends a usage record
\* if and only if delta = newBalance - currentBalance (the balance the
\* handler read) is > 0; the record carries that delta and the top-up label.
C6_AdjustLogsOnlyIncrease ==
  \A h \in Received :
    (handlers[h].op = "adjust" /\ handlers[h].pc = "ok" /\ Exists(handlers[h].uid)) =>
      /\ handlers[h].after = handlers[h].arg
      /\ LET delta == handlers[h].arg - handlers[h].before IN
         IF delta > 0
         THEN LogsOfReq(h) = <<[user_id |-> handlers[h].uid,
                                feature_name |-> FeatureTopUp,
                                token_count |-> delta, req |-> h]>>
         ELSE LogsOfReq(h) = <<>>

\* a raise was logged with its delta, then a lowering was not logged
C6_Witness ==
  \E g, h \in Received :
    /\ handlers[g].op = "adjust" /\ handlers[g].pc = "ok"
    /\ handlers[h].op = "adjust" /\ handlers[h].pc = "ok"
    /\ handlers[g].uid = handlers[h].uid /\ Exists(handlers[g].uid)
    /\ handlers[g].arg > handlers[g].before
    /\ Len(LogsOfReq(g)) = 1
    /\ LogsOfReq(g)[1].token_count = handlers[g].arg - handlers[g].before
    /\ handlers[h].before = handlers[g].arg
    /\ handlers[h].arg < handlers[h].before
    /\ LogsOfReq(h) = <<>>
    /\ users[handlers[h].uid].tokens = handlers[h].arg

\* ================================================ orchestration properties
Chargeable == {"generate", "edit", "send"}

\* the handlers serving requests sent by invocation i
HandlersOfInv(i) == {h \in Received : handlers[h].inv = i}

\* the usage records written for invocation i
RecordsOfInv(i) == SelectSeq(usage_logs, LAMBDA l : handlers[l.req].inv = i)

\* the images rows written for invocation i
ImagesOfInv(i) == SelectSeq(images, LAMBDA r : r.id = i)

\* the handler ran to its end with a result: every gateway call returned
Completed(i) ==
  /\ Finished(i)
  /\ client[i].calls = Stages(client[i].kind)
  /\ client[i].failedAt = "none"

\* the charge request of invocation i returned success
ChargeCommitted(i) ==
  /\ client[i].charge \in Received
  /\ handlers[client[i].charge].pc = "ok"

\* C7 as stated: every usage record belongs to an administrative adjustment
\* or to a chargeable action (generate, edit, chat turn), and each completed
\* chargeable action has exactly one usage record.
C7_RecordPerCompletedAction ==
  /\ \A k \in DOMAIN usage_logs :
        LET h == usage_logs[k].req IN
        \/ handlers[h].op = "adjust"
        \/ /\ handlers[h].inv \in Invocations
           /\ client[handlers[h].inv].kind \in Chargeable
  /\ \A i \in Invocations :
        (client[i].kind \in Chargeable /\ Completed(i)) => Len(RecordsOfInv(i)) = 1

\* C7 amended: a usage record is written by an administrative top-up, by a
\* mount of the assistant view (count 0), or by the charge request of a
\* chargeable action whose gateway calls all returned and, for generate and
\* edit, whose image save returned success; it carries the action's feature
\* and accumulated usage.  An invocation has one record when its charge
\* request returned success and none otherwise.
C7_RecordOrigins ==
  /\ \A k \in DOMAIN usage_logs :
        LET h == usage_logs[k].req
            i == handlers[h].inv
        IN
        \/ handlers[h].op = "adjust"
        \/ /\ handlers[h].op = "usage" /\ handlers[h].pc = "ok"
           /\ i \in Invocations /\ client[i].charge = h
           /\ usage_logs[k].user_id = client[i].uid
           /\ usage_logs[k].feature_name = Feature(client[i].kind)
           /\ usage_logs[k].token_count = client[i].totalTokens
           /\ \/ client[i].kind = "mount" /\ usage_logs[k].token_count = 0
              \/ /\ client[i].kind \in Chargeable
                 /\ client[i].calls = Stages(client[i].kind)
                 /\ client[i].failedAt = "none"
                 /\ client[i].kind \in {"generate", "edit"} =>
                       /\ client[i].save \in Received
                       /\ handlers[client[i].save].pc = "ok"
  /\ \A i \in Invocations :
        Len(RecordsOfInv(i)) = IF ChargeCommitted(i) THEN 1 ELSE 0

\* a mount left an access record of 0, and a generation whose charge
\* returned success left one record of its accumulated usage
C7_Witness ==
  \E m, g \in Invocations :
    /\ client[m].kind = "mount" /\ client[m].pc = "done"
    /\ Len(RecordsOfInv(m)) = 1 /\ RecordsOfInv(m)[1].token_count = 0
    /\ client[g].kind = "generate" /\ client[g].pc = "done"
    /\ Len(RecordsOfInv(g)) = 1 /\ RecordsOfInv(g)[1].token_count = 80

\* the balance of account u but for the requests of invocation i: the
\* grant less the charges that other invocations committed
BalanceWithout(i, u) ==
  InitialGrant - SumArgs({h \in OkUsageOn(u) : handlers[h].inv # i})

\* C8: pipeline short-circuit.  Once a gateway call of an invocation has
\* failed, the calls made are the stages up to the failed one and no later
\* stage is ever invoked; the invocation sends no save and no charge
\* request, so it leaves the balance as it was, appends no usage record and
\* saves no image row.
C8_PipelineShortCircuit ==
  \A i \in Invocations :
    client[i].failedAt # "none" =>
      /\ client[i].pc = "failed"
      /\ client[i].calls = SubSeq(Stages(client[i].kind), 1, Len(client[i].calls))
      /\ client[i].calls[Len(client[i].calls)] = client[i].failedAt
      /\ client[i].save = 0 /\ client[i].charge = 0
      /\ HandlersOfInv(i) = {}
      /\ RecordsOfInv(i) = <<>>
      /\ ImagesOfInv(i) = <<>>
      /\ users[client[i].uid].tokens = BalanceWithout(i, client[i].uid)

\* a generation whose research call returned and whose image call failed,
\* alone at the tab: nothing saved, nothing charged
C8_Witness ==
  \E i \in Invocations :
    /\ client[i].kind = "generate" /\ client[i].failedAt = "generate"
    /\ client[i].calls = <<"research", "generate">>
    /\ client[i].totalTokens = 40
    /\ client[i].pc = "failed"
    /\ handlers = <<>>
    /\ users[client[i].uid].tokens = InitialGrant
    /\ usage_logs = <<>> /\ images = <<>>

\* C9: when the upload of the image to the object store fails, the save
\* request fails, no charge request is sent for the action, and no images
\* row names an object that was never stored.
C9_StorageFailureSurfaced ==
  /\ \A h \in Received :
        (handlers[h].op = "image" /\ handlers[h].putFailed) =>
          /\ handlers[h].pc # "ok"
          /\ \A c \in Received :
                handlers[c].op = "usage" => handlers[c].inv # handlers[h].inv
  /\ \A k \in DOMAIN images : images[k].r2_key \in DOMAIN r2objects

\* C10: no charge without artifact.  A charge request of a generate or edit
\* invocation exists only once the invocation's image save has returned
\* success, and a usage record of such an invocation exists only when the
\* invocation's images row exists.
C10_NoChargeWithoutArtifact ==
  \A h \in Received :
    ( /\ handlers[h].op = "usage"
      /\ handlers[h].inv \in Invocations
      /\ client[handlers[h].inv].kind \in {"generate", "edit"} ) =>
      LET i == handlers[h].inv IN
      /\ client[i].save \in Received
      /\ handlers[client[i].save].op = "image"
      /\ handlers[client[i].save].pc = "ok"
      /\ Len(ImagesOfInv(i)) = 1
      /\ ImagesOfInv(i)[1].user_id = handlers[h].uid

\* an edit was charged after its image row was written, and a generation
\* whose save failed sent no charge request
C10_Witness ==
  \E g, e \in Invocations :
    /\ client[g].kind = "generate" /\ client[g].pc = "done"
    /\ client[g].save \in Received /\ handlers[client[g].save].pc = "err"
    /\ client[g].charge = 0
    /\ client[e].kind = "edit" /\ client[e].pc = "done"
    /\ Len(RecordsOfInv(e)) = 1 /\ Len(ImagesOfInv(e)) = 1

\* the charge request of invocation i was answered with a failure
ChargeFailed(i) ==
  /\ client[i].kind \in {"generate", "edit"}
  /\ client[i].charge \in Received
  /\ handlers[client[i].charge].pc = "err"

\* what a failed charge leaves behind: the images row of the invocation is
\* still there, no usage record, no debit
UnbilledArtifact(i) ==
  /\ Len(ImagesOfInv(i)) = 1
  /\ RecordsOfInv(i) = <<>>
  /\ ~handlers[client[i].charge].debited
  /\ users[client[i].uid].tokens = BalanceWithout(i, client[i].uid)

Overdraws(h) ==
  /\ handlers[h].op = "usage"
  /\ Exists(handlers[h].uid)
  /\ handlers[h].arg > handlers[h].before

\* C13: a charge is never refused for insufficient funds.  On an existing
\* account, whatever the balance b and the amount a, the UPDATE of a charge
\* that holds the row can run and writes b - a; a charge that returned
\* success left b - a, negative when a exceeds b, with its usage record.
C13_ChargeIgnoresSufficiency ==
  \A h \in Received :
    (handlers[h].op = "usage" /\ Exists(handlers[h].uid)) =>
      /\ (handlers[h].pc = "u_update" /\ LockFree(h, handlers[h].uid)) =>
            ENABLED UsageUpdate(h)
      /\ handlers[h].pc \in {"u_select", "u_commit"} =>
            handlers[h].pendingTokens = handlers[h].before - handlers[h].arg
      /\ handlers[h].pc = "ok" =>
            /\ handlers[h].after = handlers[h].before - handlers[h].arg
            /\ handlers[h].remainingTokens = handlers[h].before - handlers[h].arg
            /\ Len(LogsOfReq(h)) = 1

\* a charge of 70 on a balance of 50 returned success and left -20
C13_Witness ==
  \E h \in Received :
    /\ Overdraws(h) /\ handlers[h].pc = "ok"
    /\ handlers[h].before = 50 /\ handlers[h].arg = 70
    /\ handlers[h].remainingTokens = 0 - 20
    /\ users[handlers[h].uid].tokens = 0 - 20
    /\ Len(LogsOfReq(h)) = 1

\* ================================================ the authentication middleware
\* Every route of the ledger, of the image store and of the chat store is
\* registered as app.<verb>(path, authenticateToken, handler).

\* the account whose tokens the requests below carry
AuthUsers == {CHOOSE u \in UserIds : TRUE}

\* Authorization headers: none at all, or 'Bearer <token>' where the token
\* was signed by signToken with JWT_SECRET ("signed") or fails jwt.verify
\* ("invalid": signed with another key, malformed, or past its expiresIn)
Headers ==
  {[kind |-> "none", id |-> NoUser]}
    \cup [kind : {"invalid", "signed"}, id : AuthUsers]

\* jwt.verify(token, JWT_SECRET, (err, user) => ...)
verifyMutant(token) == [err |-> FALSE, user |-> token.id]
verify(token) ==
  IF token.kind = "signed"
  THEN [err |-> FALSE, user |-> token.id]
  ELSE [err |-> TRUE, user |-> NoUser]

\* authenticateToken: res.sendStatus(401) without a token, res.sendStatus(403)
\* when verification fails, otherwise req.user = user; next()
authenticateToken(header) ==
  IF header.kind = "none"
  THEN [next |-> FALSE, status |-> 401, user |-> NoUser]
  ELSE IF verify(header).err
       THEN [next |-> FALSE, status |-> 403, user |-> NoUser]
       ELSE [next |-> TRUE, status |-> 0, user |-> verify(header).user]

\* one writing route of the ledger, of the image store and of the chat store
Routes == {"usage", "images", "chat_sessions"}

\* res.sendStatus(status) from the middleware: the handler is never called
Reject(route, status) ==
  /\ reply' = [to |-> NoUser, op |-> "authenticateToken", status |-> status,
               body |-> <<>>]
  /\ UNCHANGED <<coreVars, chat_sessions, chat_messages, chat>>

\* next(): the handler registered for the route runs with req.user
Route(route, u) ==
  CASE route = "usage" ->
         ApiUsage(u, CHOOSE t \in TokenCounts : TRUE) /\ UNCHANGED <<chatVars, jwts, mockDb>>
    [] route = "images" ->
         /\ Len(handlers) < MaxRequests
         /\ StartImageSave(u, 1, 0)
         /\ UNCHANGED <<client, currentUser, chatVars, jwts, mockDb>>
    [] route = "chat_sessions" ->
         CreateSession(u, CHOOSE sid \in SessionIds : TRUE,
                          CHOOSE ts \in Instants : TRUE)

\* a request arrives at a route with some Authorization header
Receive(route, header) ==
  LET auth == authenticateToken(header)
  IN IF auth.next THEN Route(route, auth.user) ELSE Reject(route, auth.status)

NextAuth ==
  \/ \E route \in Routes, header \in Headers : Receive(route, header)
  \/ \E h \in Received : UsageInsert(h) /\ UNCHANGED <<chatVars, jwts, mockDb>>
  \/ \E h \in Received : UsageUpdate(h) /\ UNCHANGED <<chatVars, jwts, mockDb>>
  \/ \E h \in Received : UsageSelect(h) /\ UNCHANGED <<chatVars, jwts, mockDb>>
  \/ \E h \in Received : UsageCommit(h) /\ UNCHANGED <<chatVars, jwts, mockDb>>
  \/ \E h \in Received : QueryFails(h) /\ UNCHANGED <<chatVars, jwts, mockDb>>
  \/ \E h \in Received : ImagePut(h) /\ UNCHANGED <<chatVars, jwts, mockDb>>
  \/ \E h \in Received : ImagePutFails(h) /\ UNCHANGED <<chatVars, jwts, mockDb>>
  \/ \E h \in Received : ImageInsert(h) /\ UNCHANGED <<chatVars, jwts, mockDb>>

SpecAuth == Init /\ [][NextAuth]_vars

\* ========================================================= access properties

\* C14: a request to a ledger, image or chat route whose Authorization header
\* is missing is answered 401, and one whose token does not verify is
\* answered 403, by the middleware: the step that answers it leaves every
\* table, every stored object, every handler and every chat request in
\* flight as it was.
C14_UnauthenticatedRejected ==
  [][\A route \in Routes, header \in Headers :
       (header.kind # "signed" /\ Receive(route, header))
         => /\ reply'.to = NoUser
            /\ reply'.status = IF header.kind = "none" THEN 401 ELSE 403
            /\ UNCHANGED <<users, usage_logs, images, r2objects, chat_sessions,
                           chat_messages, handlers, lockOwner, chat>>]_vars

\* a request was turned away by the middleware although the same routes had
\* already charged, stored an image and opened a session for a token holder
C14_Witness ==
  /\ reply.to = NoUser
  /\ reply.status \in {401, 403}
  /\ usage_logs # <<>>
  /\ images # <<>>
  /\ chat_sessions # << >>

\* ============================================================ the admin routes
\* Each admin route is app.<verb>(path, authenticateToken, handler) and the
\* handler starts with  if (req.user.role !== 'admin') return
\* res.sendStatus(403),  where req.user is the payload of the token.

Roles == {"admin", "user"}

\* signToken(user): jwt.sign({ id, username, role }, JWT_SECRET, 7 days)
signToken(u) == [id |-> u, role |-> users[u].role]

\* POST /api/auth/login with the account's password: SELECT * FROM users
\* WHERE username = ?; 400 'User not found' without a row; otherwise the
\* response carries signToken(user)
PostLogin(u) ==
  /\ Exists(u)
  /\ jwts' = jwts \cup {signToken(u)}
  /\ UNCHANGED <<users, usage_logs, handlers, lockOwner, orchVars, chatVars, mockDb>>

\* if (req.user.role !== 'admin') return res.sendStatus(403)
Forbidden(user) == user.role # "admin"

SendStatus403(user) ==
  /\ reply' = [to |-> user.id, op |-> "admin", status |-> 403, body |-> <<>>]
  /\ UNCHANGED <<coreVars, chat_sessions, chat_messages, chat>>

\* PUT /api/admin/users/:id { role, tokens, ... }
AdminUpdate(user, id, tokens, role) ==
  IF Forbidden(user) THEN SendStatus403(user)
  ELSE /\ Len(handlers) < MaxRequests
       /\ StartAdjust(id, tokens, role)
       /\ UNCHANGED <<orchVars, chatVars, jwts, mockDb>>

\* DELETE /api/admin/users/:id
AdminDelete(user, id) ==
  IF Forbidden(user) THEN SendStatus403(user)
  ELSE /\ Exists(id)
       /\ ApiDelete(id)
       /\ UNCHANGED <<jwts, mockDb>>

\* GET /api/admin/usage: SELECT u.username, l.feature_name, l.token_count,
\* l.created_at FROM usage_logs l JOIN users u ON l.user_id = u.id
AdminUsage(user) ==
  IF Forbidden(user) THEN SendStatus403(user)
  ELSE /\ reply' = [to |-> user.id, op |-> "admin_usage", status |-> 200,
                    body |-> usage_logs]
       /\ UNCHANGED <<coreVars, chat_sessions, chat_messages, chat>>

\* one admin request from the bearer of an issued token
AdminRequest(user) ==
  \/ \E id \in UserIds, t \in NewBalances, r \in Roles : AdminUpdate(user, id, t, r)
  \/ \E id \in UserIds : AdminDelete(user, id)
  \/ AdminUsage(user)

NextAdmin ==
  \/ \E u \in UserIds : PostLogin(u)
  \/ \E user \in jwts, id \in UserIds, t \in NewBalances, r \in Roles :
       AdminUpdate(user, id, t, r)
  \/ \E user \in jwts, id \in UserIds : AdminDelete(user, id)
  \/ \E user \in jwts : AdminUsage(user)
  \/ \E h \in Received : AdjustSelect(h) /\ UNCHANGED <<chatVars, jwts, mockDb>>
  \/ \E h \in Received : AdjustUpdate(h) /\ UNCHANGED <<chatVars, jwts, mockDb>>
  \/ \E h \in Received : AdjustInsert(h) /\ UNCHANGED <<chatVars, jwts, mockDb>>
  \/ \E h \in Received : AdjustCommit(h) /\ UNCHANGED <<chatVars, jwts, mockDb>>
  \/ \E h \in Received : QueryFails(h) /\ UNCHANGED <<chatVars, jwts, mockDb>>

SpecAdmin == Init /\ [][NextAdmin]_vars

\* the account exists and its role, users.role, is not administrator
NonAdministrator(u) == Exists(u) /\ users[u].role # "admin"

\* C15: an admin request (update a user, delete a user, list all usage) from
\* the bearer of a token of an account whose role is not administrator is
\* answered 403 and the step leaves users, usage_logs and the handlers as
\* they were.
C15_NonAdminRejected ==
  [][\A user \in jwts :
       (NonAdministrator(user.id) /\ AdminRequest(user))
         => /\ reply'.status = 403
            /\ UNCHANGED <<users, usage_logs, handlers>>]_vars

\* ============================================================ chat properties

\* the session exists and belongs to another account than u
OwnedByAnother(u, sid) ==
  sid \in DOMAIN chat_sessions /\ chat_sessions[sid].user_id # u

\* C16: a step of POST /api/chat/messages made for an account that does not
\* own the target session adds no message to that session and leaves the
\* session's updated_at as it was.
C16_CrossAccountAppendDenied ==
  [][\A u \in ChatUsers, sid \in SessionIds :
       OwnedByAnother(u, sid)
         => /\ (\E ts \in Instants : AppendInsert(u, sid, ts))
                 => MessagesOf(sid)' = MessagesOf(sid)
            /\ (chat[u].sid = sid /\ AppendUpdate(u))
                 => chat_sessions'[sid].updated_at = chat_sessions[sid].updated_at]_vars

\* account u owns session sid: the session's row exists with user_id = u
Owns(u, sid) == sid \in DOMAIN chat_sessions /\ chat_sessions[sid].user_id = u

\* body lists every message of session sid once, no other message, with the
\* message's creation instant, in ascending order of creation instant
IsListingOf(body, sid) ==
  /\ Len(body) = Len(MessagesOf(sid))
  /\ \A k \in DOMAIN chat_messages :
       chat_messages[k].session_id = sid
         => \E i \in DOMAIN body :
              /\ body[i].id = chat_messages[k].id
              /\ body[i].timestamp = chat_messages[k].created_at
  /\ \A i, j \in DOMAIN body : i < j => body[i].timestamp <= body[j].timestamp

C18_AppendAtomic ==
  \A sid \in DOMAIN chat_sessions :
    MessagesOf(sid) # <<>>
      => \E k \in DOMAIN chat_messages :
           /\ chat_messages[k].session_id = sid
           /\ chat_messages[k].created_at = chat_sessions[sid].updated_at

\* no POST /api/chat/messages is between its two statements
NoAppendInFlight == \A u \in ChatUsers : chat[u].pc # "m_update"

\* the response sent last is the success of an append
AppendSucceeded == reply.op = "append" /\ reply.status = 200

\* C19: once the appends received have been served and the last of them has
\* succeeded, every session's updated_at is at least the creation instant of
\* each of its messages, and so of its most recent one.
C19_ActivityMonotone ==
  (NoAppendInFlight /\ AppendSucceeded)
    => \A k \in DOMAIN chat_messages :
         chat_messages[k].session_id \in DOMAIN chat_sessions
           => chat_sessions[chat_messages[k].session_id].updated_at
                >= chat_messages[k].created_at

\* body lists every session account u owns once, no other session, with the
\* session's updated_at, in descending order of updated_at
IsSessionListOf(body, u) ==
  /\ Len(body) = Cardinality({sid \in DOMAIN chat_sessions : Owns(u, sid)})
  /\ \A sid \in DOMAIN chat_sessions :
       Owns(u, sid) <=> \E i \in DOMAIN body : body[i].id = sid
  /\ \A i \in DOMAIN body : body[i].timestamp = chat_sessions[body[i].id].updated_at
  /\ \A i, j \in DOMAIN body : i < j => body[i].timestamp >= body[j].timestamp

\* the rows of chat_messages that belong to sessions of account u
OwnMessages(u) ==
  {k \in DOMAIN chat_messages : Owns(u, chat_messages[k].session_id)}

\* the session of account u that received a message most recently: the one
\* of the row inserted last
MessagedLast(u) ==
  chat_messages[CHOOSE k \in OwnMessages(u) : \A j \in OwnMessages(u) : j <= k].session_id

\* C20: the response of GET /api/chat/sessions holds the requester's
\* sessions and no other, in descending order of updated_at, and, once the
\* appends received have been served, the session that received a message
\* most recently has no session with messages and a greater updated_at
\* listed before it.
C20_ListSessionsOrdered ==
  [][\A u \in ChatUsers :
       (reply'.op = "sessions" /\ ListSessions(u))
         => /\ IsSessionListOf(reply'.body, u)
            /\ (NoAppendInFlight /\ OwnMessages(u) # {})
                 => \A i \in DOMAIN reply'.body :
                      MessagesOf(reply'.body[i].id) # <<>>
                        => reply'.body[i].timestamp
                             <= chat_sessions[MessagedLast(u)].updated_at]_vars

\* ============================================================ the image routes

\* ids the client gives its images (Date.now().toString() in App.tsx)
ImageIds == {1, 2}

\* POST /api/images received from the bearer of a token of account u
ApiImageSave(u, id) ==
  /\ Len(handlers) < MaxRequests
  /\ StartImageSave(u, id, 0)
  /\ UNCHANGED <<client, currentUser, chatVars, jwts, mockDb>>

\* what the history gives as data for a row: let url = row.r2_key; try { url =
\* await getSignedUrl(r2, command, { expiresIn: 3600 }) } catch (e) {}
HistoryData(row, signingThrows) ==
  IF signingThrows
  THEN [kind |-> "r2_key", key |-> row.r2_key]
  ELSE [kind |-> "signed_url", key |-> row.r2_key]

\* rows.map(async (row) => ({ id: row.id, data: url, ... })) over SELECT *
\* FROM images WHERE user_id = ?; the order of the rows is not modelled
RECURSIVE History(_, _, _)
History(u, k, failing) ==
  IF k > Len(images) THEN <<>>
  ELSE (IF images[k].user_id = u
        THEN <<[id |-> images[k].id, data |-> HistoryData(images[k], k \in failing)]>>
        ELSE <<>>) \o History(u, k + 1, failing)

\* GET /api/images; failing: the rows for which getSignedUrl throws
GetImages(u, failing) ==
  /\ reply' = [to |-> u, op |-> "images", status |-> 200,
               body |-> History(u, 1, failing)]
  /\ UNCHANGED <<coreVars, chat_sessions, chat_messages, chat>>

NextImages ==
  \/ \E u \in LedgerUsers, id \in ImageIds : ApiImageSave(u, id)
  \/ \E h \in Received : ImagePut(h) /\ UNCHANGED <<chatVars, jwts, mockDb>>
  \/ \E h \in Received : ImagePutFails(h) /\ UNCHANGED <<chatVars, jwts, mockDb>>
  \/ \E h \in Received : ImageInsert(h) /\ UNCHANGED <<chatVars, jwts, mockDb>>
  \/ \E u \in LedgerUsers, failing \in SUBSET DOMAIN images : GetImages(u, failing)

SpecImages == Init /\ [][NextImages]_vars

\* C21: no image reference the server has returned is the stored r2_key: not
\* the url of a successful POST /api/images (a signed URL, or the data URI
\* the client sent when the upload failed), and not the data of any row of a
\* GET /api/images response.
C21_KeyNeverExposed ==
  /\ \A h \in Received :
       (handlers[h].op = "image" /\ handlers[h].pc = "ok")
         => handlers[h].url \in {"signed", "data"}
  /\ reply.op = "images" =>
       \A i \in DOMAIN reply.body : reply.body[i].data.kind # "r2_key"

\* =================================================== history and deletion

\* s is an initial part of t
IsPrefix(s, t) == Len(s) <= Len(t) /\ SubSeq(t, 1, Len(s)) = s

\* C22: usage records are append-only.  In every step of the ledger routes
\* (charge, adjust, delete an account) the records of the accounts that
\* still exist after the step stay in the table, unchanged and in the same
\* order, ahead of whatever the step appends.
C22_UsageRecordsAppendOnly ==
  [][IsPrefix(SelectSeq(usage_logs, LAMBDA l : l.user_id \in DOMAIN users'),
              usage_logs')]_vars

\* an account was deleted, and the usage record of the other account is there
C22_Witness ==
  \E d \in Received :
    /\ handlers[d].op = "delete"
    /\ \E h \in Received :
         /\ handlers[h].op = "usage" /\ handlers[h].pc = "ok"
         /\ handlers[h].uid # handlers[d].uid
         /\ Len(LogsOfReq(h)) = 1

\* ---- deletion of an account while its requests are being served
\* the account whose token the requests carry; the token outlives the row
Requesters == {CHOOSE u \in LedgerUsers : TRUE}

\* requests received other than the deletion
OtherRequests == {h \in Received : handlers[h].op # "delete"}

\* DELETE /api/admin/users/:id from an administrator, once
DeleteOnce(id) ==
  /\ \A h \in Received : handlers[h].op # "delete"
  /\ Exists(id)
  /\ DeleteUser(id)
  /\ UNCHANGED <<jwts, mockDb>>

NextDelete ==
  \/ \E id \in LedgerUsers : DeleteOnce(id)
  \/ \E u \in Requesters :
       /\ Cardinality(OtherRequests) < MaxRequests
       /\ StartUsage(u, FeatureEngine, CHOOSE t \in TokenCounts : TRUE, 0)
       /\ UNCHANGED <<orchVars, chatVars, jwts, mockDb>>
  \/ \E u \in Requesters :
       /\ Cardinality(OtherRequests) < MaxRequests
       /\ StartImageSave(u, CHOOSE id \in ImageIds : TRUE, 0)
       /\ UNCHANGED <<client, currentUser, chatVars, jwts, mockDb>>
  \/ \E h \in Received : UsageInsert(h) /\ UNCHANGED <<chatVars, jwts, mockDb>>
  \/ \E h \in Received : UsageUpdate(h) /\ UNCHANGED <<chatVars, jwts, mockDb>>
  \/ \E h \in Received : UsageSelect(h) /\ UNCHANGED <<chatVars, jwts, mockDb>>
  \/ \E h \in Received : UsageCommit(h) /\ UNCHANGED <<chatVars, jwts, mockDb>>
  \/ \E h \in Received : ImagePut(h) /\ UNCHANGED <<chatVars, jwts, mockDb>>
  \/ \E h \in Received : ImageInsert(h) /\ UNCHANGED <<chatVars, jwts, mockDb>>
  \/ \E u \in Requesters :
       CreateSession(u, CHOOSE sid \in SessionIds : TRUE, CHOOSE ts \in Instants : TRUE)
  \/ \E u \in Requesters :
       AppendInsert(u, CHOOSE sid \in SessionIds : TRUE, CHOOSE ts \in Instants : TRUE)
  \/ \E u \in Requesters : AppendUpdate(u)

SpecDelete == Init /\ [][NextDelete]_vars

\* no row of any table is owned by account id
NothingOwnedBy(id) ==
  /\ \A k \in DOMAIN usage_logs : usage_logs[k].user_id # id
  /\ \A k \in DOMAIN images : images[k].user_id # id
  /\ \A sid \in DOMAIN chat_sessions : chat_sessions[sid].user_id # id
  /\ \A k \in DOMAIN chat_messages :
       /\ chat_messages[k].session_id \in DOMAIN chat_sessions
       /\ chat_sessions[chat_messages[k].session_id].user_id # id

\* C23: once an administrator has deleted an account, and whatever requests
\* of that account are still being served, no usage record, image row, chat
\* session or chat message owned by the account is in the tables.
C23_DeletionCascades ==
  \A d \in Received : handlers[d].op = "delete" => NothingOwnedBy(handlers[d].uid)

\* the account was deleted after a charge and an image save of it had
\* succeeded and while its append to its session was between its statements
C23_Witness ==
  \E d \in Received :
    /\ handlers[d].op = "delete"
    /\ \E h \in 1..(d - 1) :
         /\ handlers[h].op = "usage" /\ handlers[h].pc = "ok"
         /\ handlers[h].uid = handlers[d].uid
    /\ \E h \in 1..(d - 1) :
         /\ handlers[h].op = "image" /\ handlers[h].pc = "ok"
         /\ handlers[h].uid = handlers[d].uid
    /\ chat[handlers[d].uid].pc = "m_update"

\* ---- one tab running handleGenerate against the gateway
\* totalTokenCount values the two stages report
StageCosts == {10, 40}

NextPipeline ==
  \/ \E u \in LoginIds : Login(u) /\ UNCHANGED <<chatVars, jwts, mockDb>>
  \/ StartGenerate /\ UNCHANGED <<chatVars, jwts, mockDb>>
  \/ \E i \in Invocations, usage \in StageCosts, p \in ImagePrompts :
       ResearchReturns(i, usage, p) /\ UNCHANGED <<chatVars, jwts, mockDb>>
  \/ \E i \in Invocations, usage \in StageCosts :
       client[i].pc = "generate" /\ StageReturns(i, usage) /\ UNCHANGED <<chatVars, jwts, mockDb>>
  \/ \E i \in Invocations : StageFails(i) /\ UNCHANGED <<chatVars, jwts, mockDb>>
  \/ \E i \in Invocations : SaveReturns(i) /\ UNCHANGED <<chatVars, jwts, mockDb>>
  \/ \E i \in Invocations : ChargeReturns(i) /\ UNCHANGED <<chatVars, jwts, mockDb>>
  \/ \E h \in Received : ImagePut(h) /\ UNCHANGED <<chatVars, jwts, mockDb>>
  \/ \E h \in Received : ImageInsert(h) /\ UNCHANGED <<chatVars, jwts, mockDb>>
  \/ \E h \in Received : UsageInsert(h) /\ UNCHANGED <<chatVars, jwts, mockDb>>
  \/ \E h \in Received : UsageUpdate(h) /\ UNCHANGED <<chatVars, jwts, mockDb>>
  \/ \E h \in Received : UsageSelect(h) /\ UNCHANGED <<chatVars, jwts, mockDb>>
  \/ \E h \in Received : UsageCommit(h) /\ UNCHANGED <<chatVars, jwts, mockDb>>
  \/ \E h \in Received : QueryFails(h) /\ UNCHANGED <<chatVars, jwts, mockDb>>

SpecPipeline == Init /\ [][NextPipeline]_vars

\* the gateway calls invocation i has made so far, in order: those that have
\* returned or thrown and the one it is waiting for
Invoked(i) ==
  IF client[i].pc \in {"research", "generate", "edit", "chat"}
  THEN Append(client[i].calls, client[i].pc) ELSE client[i].calls

Made(i, stage) == \E k \in DOMAIN Invoked(i) : Invoked(i)[k] = stage

\* C24: the gateway calls of an invocation are an initial part of its stage
\* list, each made once; the image-synthesis call is made only after the
\* research call returned, with the imagePrompt of that response as its
\* prompt; after a call has thrown the invocation makes no further call.
C24_StagesInSequence ==
  \A i \in Invocations :
    /\ IsPrefix(Invoked(i), Stages(client[i].kind))
    /\ client[i].failedAt # "none" =>
         /\ client[i].pc = "failed"
         /\ client[i].calls[Len(client[i].calls)] = client[i].failedAt
    /\ Made(i, "generate") =>
         /\ client[i].researchResult.imagePrompt \in ImagePrompts
         /\ client[i].prompt = client[i].researchResult.imagePrompt
    /\ ~Made(i, "generate") => client[i].prompt = NoPrompt

\* one invocation made both calls, the second with a prompt other than the
\* representative one, and another stopped at its failed research call
C24_Witness ==
  \E i, j \in Invocations :
    /\ client[i].calls = <<"research", "generate">>
    /\ client[i].prompt # (CHOOSE p \in ImagePrompts : TRUE)
    /\ client[i].failedAt = "none"
    /\ client[j].failedAt = "research" /\ client[j].calls = <<"research">>

\* the POST /api/usage requests that invocation i sent
ChargeCalls(i) ==
  {h \in Received : handlers[h].op = "usage" /\ handlers[h].inv = i}

\* the costs the stages of invocation i reported
StageCostSum(i) == client[i].researchResult.usage + client[i].genResult.usage

\* C25: a generation whose two stages returned and whose image save
\* succeeded sends exactly one charge request; a charge request of a
\* generation carries the sum of the costs the research and the
\* image-synthesis responses reported and the visualization feature label,
\* and the usage record it commits carries the same amount and label.
C25_ChargeIsStageSum ==
  \A i \in Invocations : client[i].kind = "generate" =>
    /\ Cardinality(ChargeCalls(i)) =
         IF client[i].save \in Received /\ handlers[client[i].save].pc = "ok"
            /\ client[i].pc \in {"await_charge", "done"}
         THEN 1 ELSE 0
    /\ \A h \in ChargeCalls(i) :
         /\ client[i].calls = Stages("generate")
         /\ handlers[h].arg = StageCostSum(i)
         /\ handlers[h].feature = FeatureEngine
         /\ handlers[h].uid = client[i].uid
         /\ handlers[h].pc = "ok" =>
              \E k \in DOMAIN usage_logs :
                /\ usage_logs[k].req = h
                /\ usage_logs[k].token_count = StageCostSum(i)
                /\ usage_logs[k].feature_name = FeatureEngine

\* a generation whose stages reported different costs was charged their sum
C25_Witness ==
  \E i \in Invocations :
    /\ client[i].kind = "generate" /\ client[i].pc = "done"
    /\ client[i].researchResult.usage = 10 /\ client[i].genResult.usage = 40
    /\ \E h \in ChargeCalls(i) : handlers[h].pc = "ok" /\ handlers[h].arg = 50

\* ---- scheduling of the pipeline
\* the steps the server takes by itself: the statements of the image and
\* usage routes run to their response once the request has arrived
ServerStep ==
  \E h \in Received :
    /\ \/ ImagePut(h) \/ ImageInsert(h)
       \/ UsageInsert(h) \/ UsageUpdate(h) \/ UsageSelect(h) \/ UsageCommit(h)
    /\ UNCHANGED <<chatVars, jwts, mockDb>>

\* the continuation of a handler runs once the awaited response has arrived
ClientStep ==
  \E i \in Invocations :
    (SaveReturns(i) \/ ChargeReturns(i)) /\ UNCHANGED <<chatVars, jwts, mockDb>>

\* the gateway answers a call, with a result or an error
GatewayStep ==
  \E i \in Invocations :
    /\ \/ \E usage \in StageCosts, p \in ImagePrompts : ResearchReturns(i, usage, p)
       \/ \E usage \in StageCosts : client[i].pc = "generate" /\ StageReturns(i, usage)
       \/ StageFails(i)
    /\ UNCHANGED <<chatVars, jwts, mockDb>>

\* the server and the event loop are fair; nothing obliges the gateway to
\* answer: fetch has no timeout and no AbortController (apiRequest), and the
\* route awaits generateContent without one
SpecPipelineLive == SpecPipeline /\ WF_vars(ServerStep) /\ WF_vars(ClientStep)

\* the same with a gateway that always answers
SpecPipelineAnswered == SpecPipelineLive /\ WF_vars(GatewayStep)

\* generation i has been started; it and the invocations before it ended
Generating(i) == IF i \in Invocations THEN client[i].kind = "generate" ELSE FALSE
Ended(i) == IF i \in Invocations THEN \A j \in 1..i : Finished(j) ELSE FALSE

\* C26: every generation that was started ends, in success or in failure,
\* and with it the tab's isLoading is cleared, also when the gateway does
\* not answer.
C26_InvocationTerminates ==
  \A i \in 1..MaxInvocations : Generating(i) ~> Ended(i)

\* ================================================= POST /api/gemini/chat
\* const modelName = chatMode === 'light' ? 'gemini-2.5-flash' : 'gemini-3-pro'
LightModel == "gemini-2.5-flash"
DeepModel == "gemini-3-pro"
ModelNames == {LightModel, DeepModel}

\* authenticateToken passed with req.user = user; the route reads modelName
\* from the body and calls genAI.chats.create({ model: modelName, ... }) and
\* chat.sendMessage without looking at req.user; the response log keeps the
\* model the call was made with
GeminiChat(user, modelName) ==
  /\ reply' = [to |-> user.id, op |-> "gemini_chat", status |-> 200,
               body |-> <<[model |-> modelName, role |-> user.role]>>]
  /\ UNCHANGED <<coreVars, chat_sessions, chat_messages, chat>>

\* sendMessage throws: catch -> 500
GeminiChatFails(user, modelName) ==
  /\ reply' = [to |-> user.id, op |-> "gemini_chat", status |-> 500,
               body |-> <<[model |-> modelName, role |-> user.role]>>]
  /\ UNCHANGED <<coreVars, chat_sessions, chat_messages, chat>>

NextGateway ==
  \/ \E u \in LedgerUsers : PostLogin(u)
  \/ \E user \in jwts, modelName \in ModelNames : GeminiChat(user, modelName)
  \/ \E user \in jwts, modelName \in ModelNames : GeminiChatFails(user, modelName)
  \/ \E user \in jwts, id \in LedgerUsers, t \in NewBalances, r \in Roles :
       AdminUpdate(user, id, t, r)
  \/ \E h \in Received : AdjustSelect(h) /\ UNCHANGED <<chatVars, jwts, mockDb>>
  \/ \E h \in Received : AdjustUpdate(h) /\ UNCHANGED <<chatVars, jwts, mockDb>>
  \/ \E h \in Received : AdjustInsert(h) /\ UNCHANGED <<chatVars, jwts, mockDb>>
  \/ \E h \in Received : AdjustCommit(h) /\ UNCHANGED <<chatVars, jwts, mockDb>>

SpecGateway == Init /\ [][NextGateway]_vars

\* C27: the chat endpoint never calls the model in deep mode for a request
\* whose account has the ordinary role 'user'.
C27_DeepModeGated ==
  (reply.op = "gemini_chat" /\ reply.body[1].model = DeepModel)
    => reply.body[1].role # "user"

\* ---- the charge route with any tokenCount a request body can carry
\* req.body.tokenCount is not validated: tokenCount || 0 keeps every number
\* other than 0, and usage_logs.token_count is a signed INT
ClientTokenCounts == {-70, 0, 30}

NextCharge ==
  \/ \E u \in LedgerUsers, t \in ClientTokenCounts :
       ApiUsage(u, t) /\ UNCHANGED <<chatVars, jwts, mockDb>>
  \/ \E h \in Received : UsageInsert(h) /\ UNCHANGED <<chatVars, jwts, mockDb>>
  \/ \E h \in Received : UsageUpdate(h) /\ UNCHANGED <<chatVars, jwts, mockDb>>
  \/ \E h \in Received : UsageSelect(h) /\ UNCHANGED <<chatVars, jwts, mockDb>>
  \/ \E h \in Received : UsageCommit(h) /\ UNCHANGED <<chatVars, jwts, mockDb>>
  \/ \E h \in Received : QueryFails(h) /\ UNCHANGED <<chatVars, jwts, mockDb>>

SpecCharge == Init /\ [][NextCharge]_vars

\* C28: no step of a charge request, whatever tokenCount it carries, leaves
\* the balance of an account greater than it was.
C28_ChargeNeverIncreases ==
  [][\A u \in DOMAIN users : users'[u].tokens <= users[u].tokens]_vars

\* ---- saves of images under ids that may be taken
NextSave ==
  \/ \E u \in LedgerUsers, id \in ImageIds, data \in ImageData :
       /\ Len(handlers) < MaxRequests
       /\ SaveImage(u, id, 0, data)
       /\ UNCHANGED <<client, currentUser, chatVars, jwts, mockDb>>
  \/ \E h \in Received : ImagePut(h) /\ UNCHANGED <<chatVars, jwts, mockDb>>
  \/ \E h \in Received : ImagePutFails(h) /\ UNCHANGED <<chatVars, jwts, mockDb>>
  \/ \E h \in Received : ImageInsert(h) /\ UNCHANGED <<chatVars, jwts, mockDb>>

SpecSave == Init /\ [][NextSave]_vars

\* C29: no step of a save changes an image row that exists or the bytes
\* stored under the key of a row that exists; in particular a save under an
\* id that is taken, which is rejected, leaves both as they were.
C29_ExistingArtifactUnaltered ==
  [][\A k \in DOMAIN images :
       /\ k \in DOMAIN images' /\ images'[k] = images[k]
       /\ images[k].r2_key \in DOMAIN r2objects =>
            /\ images[k].r2_key \in DOMAIN r2objects'
            /\ r2objects'[images[k].r2_key] = r2objects[images[k].r2_key]]_vars

\* ===================================== the in-memory store (useMockDb)
\* a - b in JavaScript for a number b
JsMinus(a, b) == IF a.kind = "number" THEN Number(a.n - b) ELSE NaN

\* POST /api/usage with useMockDb: mockUsageLogs.push(...); then
\* user.tokens -= tokenCount || 0 and { success, remainingTokens } when
\* mockUsers has the account, { success: true } when it has not
MockUsage(db, uid, f, tokenCount, h) ==
  LET row == [user_id |-> uid, feature_name |-> f, token_count |-> tokenCount,
              req |-> h]
      found == uid \in DOMAIN db.users
      after == IF found THEN JsMinus(db.users[uid].tokens, tokenCount) ELSE Undefined
  IN [users |-> IF found THEN [db.users EXCEPT ![uid].tokens = after] ELSE db.users,
      usage_logs |-> Append(db.usage_logs, row),
      res |-> Append(db.res, [status |-> 200, remainingTokens |-> after])]

\* DELETE /api/admin/users/:id with useMockDb: mockUsers.splice(idx, 1)
MockDelete(db, id) ==
  [users |-> [u \in DOMAIN db.users \ {id} |-> db.users[u]],
   usage_logs |-> db.usage_logs,
   res |-> Append(db.res, [status |-> 200, remainingTokens |-> Undefined])]

\* what the database route answered to request h
DbResponse(h) ==
  IF handlers[h].pc = "ok"
  THEN [status |-> 200, remainingTokens |-> Number(handlers[h].remainingTokens)]
  ELSE [status |-> 500, remainingTokens |-> Undefined]

Quiescent == \A h \in Received : Done(h)

\* the same request served by both stores, one request at a time
BothUsage(u, tokenCount) ==
  /\ Quiescent
  /\ ApiUsage(u, tokenCount)
  /\ mockDb' = MockUsage(mockDb, u, FeatureEngine, tokenCount, Len(handlers) + 1)
  /\ UNCHANGED <<chatVars, jwts>>

BothDelete(id) ==
  /\ Quiescent
  /\ Exists(id)
  /\ ApiDelete(id)
  /\ mockDb' = MockDelete(mockDb, id)
  /\ UNCHANGED jwts

NextFallback ==
  \/ \E u \in LedgerUsers, t \in TokenCounts : BothUsage(u, t)
  \/ \E id \in LedgerUsers : BothDelete(id)
  \/ \E h \in Received : UsageInsert(h) /\ UNCHANGED <<chatVars, jwts, mockDb>>
  \/ \E h \in Received : UsageUpdate(h) /\ UNCHANGED <<chatVars, jwts, mockDb>>
  \/ \E h \in Received : UsageSelect(h) /\ UNCHANGED <<chatVars, jwts, mockDb>>
  \/ \E h \in Received : UsageCommit(h) /\ UNCHANGED <<chatVars, jwts, mockDb>>

SpecFallback == Init /\ [][NextFallback]_vars

\* request h left a usage record in the table / in the array
DbRecorded(h) == \E k \in DOMAIN usage_logs : usage_logs[k].req = h
MockRecorded(h) == \E k \in DOMAIN mockDb.usage_logs : mockDb.usage_logs[k].req = h

\* the account of request h was deleted after h
DeletedLater(h) ==
  \E d \in Received :
    d > h /\ handlers[d].op = "delete" /\ handlers[d].uid = handlers[h].uid

\* C30: served one at a time, a charge gets the same response (status and
\* remaining balance) from the in-memory store and from the database, both
\* record it or neither does, and the balances of the accounts agree, for
\* accounts that exist and for accounts that do not.
C30_FallbackEquivalent ==
  /\ \A h \in Received : (handlers[h].op = "usage" /\ Done(h)) =>
        /\ mockDb.res[h] = DbResponse(h)
        /\ DbRecorded(h) => MockRecorded(h)
        /\ MockRecorded(h) => (DbRecorded(h) \/ DeletedLater(h))
        /\ (Quiescent /\ Exists(handlers[h].uid)) =>
              /\ handlers[h].uid \in DOMAIN mockDb.users
              /\ mockDb.users[handlers[h].uid].tokens
                   = Number(users[handlers[h].uid].tokens)

====
